---- MODULE Spec2Model ----
(***************************************************************************)
(* Model of the protein similarity predictor (src/unnamed/part_000, the    *)
(* module server.js requires as ./proteinPredictor) and of its HTTP server *)
(* (src/server.js).                                                        *)
(*                                                                         *)
(* Three specifications share the variables below:                         *)
(*   SpecExtract  extractFeaturesFast applied to bounded sequences;        *)
(*   SpecPredict  predictProtein's search stage (findNearestNeighbors and  *)
(*                findNearestNeighborsFast) over bounded corpora;          *)
(*   Spec         the server process: the startup IIFE, POST /api/predict, *)
(*                the SIGINT handler and closeConnections, interleaved.    *)
(* A specification keeps the variables of the other two at their idle      *)
(* values.                                                                 *)
(***************************************************************************)
EXTENDS Integers, Sequences, FiniteSets

VARIABLES
    \* ---- SpecExtract
    sequence,       \* the argument of extractFeaturesFast
    extracted,      \* the outcome of the call, kind "none" before it
    \* ---- SpecPredict
    corpus,         \* table proteins in rowid order: [seq_length, features]
    scaledFeatures, \* the query vector the scaler produced
    topN,           \* predictProtein's topN, as the caller gave it
    inputLength,    \* sequence.length of the query
    outExhaustive,  \* outcome of predictProtein(.., useFastSearch = false)
    outFast,        \* outcome of predictProtein(.., useFastSearch = true)
    \* ---- Spec
    initPc,         \* position of the startup IIFE inside initModel
    scalerSession,  \* part_000:5   "null" | "loaded"
    db,             \* part_000:6   "null" | "open" | "closed"
    modelReady,     \* server.js:11
    proc,           \* "running" | "exit0" | "exit1"
    accepting,      \* the HTTP server still takes new requests
    sigints,        \* SIGINTs delivered so far
    released,       \* how often each resource has been released
    req             \* the requests, by id

extractVars == <<sequence, extracted>>
predictVars == <<corpus, scaledFeatures, topN, inputLength, outExhaustive, outFast>>
serverVars  == <<initPc, scalerSession, db, modelReady, proc, accepting, sigints,
                 released, req>>
vars == <<extractVars, predictVars, serverVars>>

(***************************************************************************)
(* Bounds of the model.                                                    *)
(***************************************************************************)
MaxSeqLen == 3
MaxCorpus == 3
MaxRequests == 2
MaxSigints == 2

(***************************************************************************)
(* Small operators on sequences.                                           *)
(***************************************************************************)
RECURSIVE SumSeq(_)
SumSeq(s) == IF s = <<>> THEN 0 ELSE Head(s) + SumSeq(Tail(s))

SeqsUpTo(S, n) == UNION {[1..k -> S] : k \in 0..n}

\* The idle outcome of a call that has not been made.
NoOutcome == [kind |-> "none", value |-> <<>>, error |-> "", scanned |-> 0]
Return(v, n) == [kind |-> "return", value |-> v, error |-> "", scanned |-> n]
Throw(e) == [kind |-> "throw", value |-> <<>>, error |-> e, scanned |-> 0]

(***************************************************************************)
(* extractFeaturesFast.  A JavaScript number the function produces is kept *)
(* as the operation that made it: log1p(n), or the quotient n / d, which   *)
(* is NaN for 0 / 0 and Infinity for n / 0.                                *)
(***************************************************************************)
aminoAcids ==
    <<"A", "C", "D", "E", "F", "G", "H", "I", "K", "L",
      "M", "N", "P", "Q", "R", "S", "T", "V", "W", "Y">>

Log1p(n) == [kind |-> "log1p", n |-> n, d |-> 1]

Div(n, d) ==
    IF d # 0 THEN [kind |-> "ratio", n |-> n, d |-> d]
    ELSE IF n = 0 THEN [kind |-> "NaN", n |-> 0, d |-> 0]
    ELSE [kind |-> "Infinity", n |-> n, d |-> 0]

\* A loop that starts one symbol late.
aaCountSkipFirst(seq, aa) == Cardinality({i \in 2..Len(seq) : seq[i] = aa})

\* aaCounts[aa] after the loop over the sequence: only the 20 keys exist.
aaCount(seq, aa) == Cardinality({i \in 1..Len(seq) : seq[i] = aa})

\* sequence.split('').filter(aa => group.includes(aa)).length
groupCount(seq, group) == Cardinality({i \in 1..Len(seq) : seq[i] \in group})

hydrophobicSet == {"A", "I", "L", "M", "F", "V", "P", "W", "G"}
positiveSet == {"K", "R", "H"}
negativeSet == {"D", "E"}
polarSet == {"S", "T", "N", "Q"}
aromaticSet == {"F", "W", "Y"}
smallSet == {"A", "G", "S", "V"}

extractFeaturesFast(seq) ==
    LET seqLen == Len(seq)
    IN  <<Log1p(seqLen)>>
        \o [i \in 1..Len(aminoAcids) |-> Div(aaCount(seq, aminoAcids[i]), seqLen)]
        \o <<Div(groupCount(seq, hydrophobicSet), seqLen),
             Div(groupCount(seq, positiveSet), seqLen),
             Div(groupCount(seq, negativeSet), seqLen),
             Div(groupCount(seq, polarSet), seqLen),
             Div(groupCount(seq, aromaticSet), seqLen),
             Div(groupCount(seq, smallSet), seqLen)>>

\* The symbols sequences are drawn from; "X" and "b" are outside the alphabet.
InputSymbols == {"A", "G", "K", "D", "S", "W", "X", "b"}

InitExtract ==
    /\ sequence \in SeqsUpTo(InputSymbols, MaxSeqLen)
    /\ extracted = NoOutcome

\* A call of the exported extractFeaturesFast: it has no throw statement and
\* no guard, so whatever the vector holds is returned.
ExtractFeatures ==
    /\ extracted.kind = "none"
    /\ extracted' = Return(extractFeaturesFast(sequence), 0)
    /\ UNCHANGED sequence

(***************************************************************************)
(* The search.  Row i of table proteins is corpus[i]; its id and its       *)
(* protein_name are i.  A vector holds small integers, so a squared        *)
(* distance is exact.                                                      *)
(***************************************************************************)
\* Stand-ins for maxScan = 50000 (part_000:84) and LIMIT 100000
\* (part_000:146), scaled to the corpora the model enumerates.
maxScan == 2
fastLimit == 4

Min(a, b) == IF a < b THEN a ELSE b
Max(a, b) == IF a > b THEN a ELSE b

\* Math.sqrt(sum) is kept as its radicand: sqrt is strictly increasing on
\* the exact sums of the model, so a.distance - b.distance has the sign of
\* the difference of the radicands.
euclideanDistance(a, b) ==
    [sqrtOf |-> SumSeq([i \in 1..Len(a) |-> (a[i] - b[i]) * (a[i] - b[i])])]

RECURSIVE FloorSqrt(_, _, _)
FloorSqrt(n, lo, hi) ==
    IF lo = hi THEN lo
    ELSE LET mid == (lo + hi + 1) \div 2
         IN  IF mid * mid <= n THEN FloorSqrt(n, mid, hi)
             ELSE FloorSqrt(n, lo, mid - 1)

\* distance.toFixed(4): the decimal string with four fraction digits of the
\* distance rounded to the nearest 0.0001, kept as its count of 0.0001s
\* ("1.4142" is 14142).
toFixed4(dist) ==
    LET n == dist.sqrtOf * 100000000
        f == FloorSqrt(n, 0, 46340)
    IN  IF f * f + f < n THEN f + 1 ELSE f

\* Array.prototype.slice(0, end) on a sequence.
slice0(s, end) ==
    LET len == Len(s)
        k == IF end < 0 THEN Max(len + end, 0) ELSE Min(end, len)
    IN  SubSeq(s, 1, k)

\* Stable insertion sort of <<key, item>> pairs by ascending key: x goes
\* behind every element whose key is not greater.
RECURSIVE InsertStable(_, _)
InsertStable(x, s) ==
    IF s = <<>> THEN <<x>>
    ELSE IF Head(s)[1] > x[1] THEN <<x>> \o s
    ELSE <<Head(s)>> \o InsertStable(x, Tail(s))

RECURSIVE StableSort(_)
StableSort(s) ==
    IF s = <<>> THEN <<>>
    ELSE InsertStable(s[Len(s)], StableSort(SubSeq(s, 1, Len(s) - 1)))

Items(pairs) == [i \in 1..Len(pairs) |-> pairs[i][2]]

\* The list left as pushed.
sortByDistanceNoSort(distances) == distances

\* distances.sort((a, b) => a.distance - b.distance): Array.prototype.sort
\* is stable.
sortByDistance(distances) ==
    Items(StableSort([i \in 1..Len(distances) |->
                         <<distances[i].distance.sqrtOf, distances[i]>>]))

\* The loop pushing one item per scanned row (part_000:97-109, 154-166).
scoreRows(query, table, rows) ==
    [k \in 1..Len(rows) |->
        [id |-> rows[k],
         protein_name |-> rows[k],
         distance |-> euclideanDistance(query, table[rows[k]].features)]]

\* sort, slice and map of both search functions.
rankResults(distances, n) ==
    LET topResults == slice0(sortByDistance(distances), n)
    IN  [index \in 1..Len(topResults) |->
            [rank |-> index,
             protein |-> topResults[index].protein_name,
             distance |-> toFixed4(topResults[index].distance)]]

\* stmt.all(maxScan): SELECT ... FROM proteins LIMIT ?, rows in rowid order.
scanAll(table, limit) == [i \in 1..Min(limit, Len(table)) |-> i]

minLength(len) == (len * 8) \div 10
maxLength(len) == (len * 12 + 9) \div 10
\* A window that leaves its two end lengths out.
InWindowExclusive(l, len) == minLength(len) < l /\ l < maxLength(len)

\* seq_length BETWEEN minLength AND maxLength: both ends belong to it.
InWindow(l, len) == minLength(len) <= l /\ l <= maxLength(len)

RECURSIVE FilterRows(_, _, _)
FilterRows(table, len, i) ==
    IF i > Len(table) THEN <<>>
    ELSE (IF InWindow(table[i].seq_length, len) THEN <<i>> ELSE <<>>)
         \o FilterRows(table, len, i + 1)

\* stmt.all(minLength, maxLength): WHERE seq_length BETWEEN ? AND ? LIMIT
\* 100000.  The statement has no ORDER BY: SQLite returns the rows in the
\* order of the plan it picks, rowid order for a table scan, (seq_length,
\* rowid) order for a scan of an index on seq_length.
scanByLengthWindow(table, len, plan) ==
    LET rows == FilterRows(table, len, 1)
        ordered ==
            IF plan = "rowid" THEN rows
            ELSE Items(StableSort([i \in 1..Len(rows) |->
                                      <<table[rows[i]].seq_length, rows[i]>>]))
    IN  SubSeq(ordered, 1, Min(fastLimit, Len(ordered)))

\* What db.prepare does on the handle: `!db` is true of null alone; a closed
\* handle passes the check and better-sqlite3 throws on prepare.
dbGuard(d) ==
    IF d = "null" THEN "Base de datos no conectada"
    ELSE IF d = "closed" THEN "The database connection is not open"
    ELSE ""

findNearestNeighbors(d, table, query, n, limit) ==
    IF dbGuard(d) # "" THEN Throw(dbGuard(d))
    ELSE LET rows == scanAll(table, limit)
         IN  Return(rankResults(scoreRows(query, table, rows), n), Len(rows))

findNearestNeighborsFast(d, table, query, n, len, plan) ==
    IF dbGuard(d) # "" THEN Throw(dbGuard(d))
    ELSE LET rows == scanByLengthWindow(table, len, plan)
         IN  Return(rankResults(scoreRows(query, table, rows), n), Len(rows))

\* Inputs of SpecPredict.
Vectors == {<<0, 0>>, <<1, 1>>, <<3, 1>>}
Lengths == {7, 8, 12}
TopNs == {-1, 0, 1, 2}
InputLengths == {10}
Plans == {"rowid", "seq_length"}
Entries == [seq_length : Lengths, features : Vectors]

(***************************************************************************)
(* predictProtein from the point where `await scalerSession.run(feeds)`    *)
(* settles (part_000:204-224).  scalerOk: the run resolved; parseOk:       *)
(* JSON.parse accepted the features column of every scanned row.  An       *)
(* outcome names the stages that ran and the stage that threw.             *)
(***************************************************************************)
Stages == <<"extract", "scale", "scan", "rank">>
StageNo(st) == CHOOSE i \in 1..Len(Stages) : Stages[i] = st
StagesBefore(st) == {Stages[i] : i \in 1..(StageNo(st) - 1)}
AllStages == {Stages[i] : i \in 1..Len(Stages)}

Failed(st, e) ==
    [kind |-> "throw", failedAt |-> st, ran |-> StagesBefore(st),
     results |-> <<>>, error |-> e, scanned |-> 0]

\* A catch that logs the scaler's error and searches all the same.
predictResumeSwallow(d, table, query, n, len, plan, scalerOk, parseOk) ==
    LET found == findNearestNeighborsFast("open", table, query, n, len, plan)
    IN  [kind |-> "return", failedAt |-> IF scalerOk THEN "" ELSE "scale",
         ran |-> AllStages, results |-> found.value, error |-> "",
         scanned |-> found.scanned]

predictResume(d, table, query, n, len, plan, scalerOk, parseOk) ==
    IF ~scalerOk THEN Failed("scale", "scaler run rejected")
    ELSE IF dbGuard(d) # "" THEN Failed("scan", dbGuard(d))
    ELSE IF ~parseOk THEN Failed("rank", "Unexpected token in JSON")
    ELSE LET found == findNearestNeighborsFast(d, table, query, n, len, plan)
         IN  [kind |-> "return", failedAt |-> "", ran |-> AllStages,
              results |-> found.value, error |-> "", scanned |-> found.scanned]

(***************************************************************************)
(* The server process (src/server.js).                                     *)
(***************************************************************************)
Requests == 1..MaxRequests

\* What a request body holds, by the branch of the validation it takes.
Bodies == {"noSequence", "noAminoAcid", "short", "valid"}

NewRequest ==
    [pc |-> "new", status |-> 0, hasPredictions |-> FALSE, predictions |-> <<>>,
     predictAt |-> "never", ran |-> {}, failedAt |-> "", scanDb |-> "none"]

Respond(q, code) == [q EXCEPT !.pc = "done", !.status = code]

\* A gate that lets every request through.
readinessGateOpen(ready) == TRUE

\* if (!modelReady) return res.status(503)
readinessGate(ready) == ready

\* The validation of the body: the status it answers, 0 when it passes.
validate(body) == IF body = "valid" THEN 0 ELSE 400

\* initModel resumed after `await ort.InferenceSession.create`, with what
\* goes wrong: the session and the handle it leaves, and whether it threw.
initModel(fault) ==
    CASE fault = "scaler"    -> [scalerSession |-> "null", db |-> "null", threw |-> TRUE]
      [] fault = "dbMissing" -> [scalerSession |-> "loaded", db |-> "null", threw |-> TRUE]
      [] fault = "dbOpen"    -> [scalerSession |-> "loaded", db |-> "null", threw |-> TRUE]
      [] fault = "dbQuery"   -> [scalerSession |-> "loaded", db |-> "open", threw |-> TRUE]
      [] OTHER               -> [scalerSession |-> "loaded", db |-> "open", threw |-> FALSE]

InitFaults == {"scaler", "dbMissing", "dbOpen", "dbQuery"}

\* closeConnections: if (db) db.close().  db keeps its value, a closed
\* handle, and nothing releases scalerSession.
closeConnections(d, rel) ==
    IF d # "null"
    THEN [db |-> "closed", released |-> [rel EXCEPT !.db = @ + 1]]
    ELSE [db |-> d, released |-> rel]

\* The corpus and the query the server's predictions run on.
ServerCorpus ==
    <<[seq_length |-> 8, features |-> <<1, 1>>],
      [seq_length |-> 12, features |-> <<0, 0>>]>>

IdleExtract == sequence = <<>> /\ extracted = NoOutcome

IdlePredict ==
    /\ corpus = ServerCorpus
    /\ scaledFeatures = <<0, 0>>
    /\ topN = 5
    /\ inputLength = 10
    /\ outExhaustive = NoOutcome
    /\ outFast = NoOutcome

\* The process with initModel completed and nothing else going on.
IdleServer ==
    /\ initPc = "done"
    /\ scalerSession = "loaded"
    /\ db = "open"
    /\ modelReady = TRUE
    /\ proc = "running"
    /\ accepting = TRUE
    /\ sigints = 0
    /\ released = [scaler |-> 0, db |-> 0]
    /\ req = [r \in Requests |-> NewRequest]

InitServer ==
    /\ initPc = "loadScaler"
    /\ scalerSession = "null"
    /\ db = "null"
    /\ modelReady = FALSE
    /\ proc = "running"
    /\ accepting = TRUE
    /\ sigints = 0
    /\ released = [scaler |-> 0, db |-> 0]
    /\ req = [r \in Requests |-> NewRequest]

\* The startup IIFE resumed: initModel returns true and modelReady is set.
StartupOk ==
    /\ proc = "running"
    /\ initPc = "loadScaler"
    /\ LET m == initModel("none")
       IN  /\ scalerSession' = m.scalerSession
           /\ db' = m.db
    /\ modelReady' = TRUE
    /\ initPc' = "done"
    /\ UNCHANGED <<proc, accepting, sigints, released, req>>

\* The startup IIFE resumed: initModel throws, the catch calls
\* process.exit(1).
StartupFails ==
    /\ proc = "running"
    /\ initPc = "loadScaler"
    /\ \E fault \in InitFaults :
          LET m == initModel(fault)
          IN  /\ scalerSession' = m.scalerSession
              /\ db' = m.db
    /\ initPc' = "failed"
    /\ proc' = "exit1"
    /\ UNCHANGED <<modelReady, accepting, sigints, released, req>>

\* POST /api/predict up to its first await: the gate, the validation, and
\* predictProtein up to `await scalerSession.run(feeds)`.
Arrive(r, body) ==
    /\ proc = "running"
    /\ accepting
    /\ req[r].pc = "new"
    /\ req' = [req EXCEPT ![r] =
          IF ~readinessGate(modelReady) THEN Respond(@, 503)
          ELSE IF validate(body) # 0 THEN Respond(@, validate(body))
          ELSE IF scalerSession = "null"
          THEN [Respond(@, 500) EXCEPT !.predictAt = initPc,
                                       !.ran = {"extract"},
                                       !.failedAt = "scale"]
          ELSE [@ EXCEPT !.pc = "awaitScaler",
                         !.predictAt = initPc,
                         !.ran = {"extract"}]]
    /\ UNCHANGED <<initPc, scalerSession, db, modelReady, proc, accepting,
                   sigints, released>>

\* The rest of the request once the scaler run settles: the search, then
\* res.json of the predictions, or the catch's status 500.
ScalerSettles(r, scalerOk, parseOk) ==
    /\ proc = "running"
    /\ req[r].pc = "awaitScaler"
    /\ LET out == predictResume(db, corpus, scaledFeatures, topN, inputLength,
                                "rowid", scalerOk, parseOk)
       IN  req' = [req EXCEPT ![r] =
              [Respond(@, IF out.kind = "throw" THEN 500 ELSE 200) EXCEPT
                  !.hasPredictions = (out.kind = "return"),
                  !.predictions = out.results,
                  !.ran = out.ran,
                  !.failedAt = out.failedAt,
                  !.scanDb = IF "scale" \in out.ran THEN db ELSE "none"]]
    /\ UNCHANGED <<initPc, scalerSession, db, modelReady, proc, accepting,
                   sigints, released>>

\* process.on('SIGINT'): closeConnections(), then server.close(callback).
Sigint ==
    /\ proc = "running"
    /\ sigints < MaxSigints
    /\ LET c == closeConnections(db, released)
       IN  /\ db' = c.db
           /\ released' = c.released
    /\ accepting' = FALSE
    /\ sigints' = sigints + 1
    /\ UNCHANGED <<initPc, scalerSession, modelReady, proc, req>>

\* server.close's callback, once no request is in flight: process.exit(0).
ServerClosed ==
    /\ proc = "running"
    /\ sigints > 0
    /\ \A r \in Requests : req[r].pc # "awaitScaler"
    /\ proc' = "exit0"
    /\ UNCHANGED <<initPc, scalerSession, db, modelReady, accepting, sigints,
                   released, req>>

Init == IdleExtract /\ IdlePredict /\ InitServer

Next ==
    \/ StartupOk /\ UNCHANGED <<extractVars, predictVars>>
    \/ StartupFails /\ UNCHANGED <<extractVars, predictVars>>
    \/ \E r \in Requests, body \in Bodies :
          Arrive(r, body) /\ UNCHANGED <<extractVars, predictVars>>
    \/ \E r \in Requests, scalerOk \in BOOLEAN, parseOk \in BOOLEAN :
          ScalerSettles(r, scalerOk, parseOk) /\ UNCHANGED <<extractVars, predictVars>>
    \/ Sigint /\ UNCHANGED <<extractVars, predictVars>>
    \/ ServerClosed /\ UNCHANGED <<extractVars, predictVars>>

Spec == Init /\ [][Next]_vars

(***************************************************************************)
(* SpecExtract: extractFeaturesFast on every sequence of the bound.        *)
(***************************************************************************)
SpecExtractInit == InitExtract /\ IdlePredict /\ IdleServer

SpecExtractNext == ExtractFeatures /\ UNCHANGED <<predictVars, serverVars>>

SpecExtract == SpecExtractInit /\ [][SpecExtractNext]_vars

(***************************************************************************)
(* SpecPredict: both modes of predictProtein on every corpus, query and    *)
(* topN of the bounds, in an initialised process.                          *)
(***************************************************************************)
InitPredict ==
    /\ corpus \in SeqsUpTo(Entries, MaxCorpus)
    /\ scaledFeatures \in Vectors
    /\ topN \in TopNs
    /\ inputLength \in InputLengths
    /\ outExhaustive = NoOutcome
    /\ outFast = NoOutcome

\* predictProtein(sequence, topN, false): findNearestNeighbors with its
\* default maxScan.
PredictExhaustive ==
    /\ outExhaustive.kind = "none"
    /\ outExhaustive' = findNearestNeighbors(db, corpus, scaledFeatures, topN, maxScan)
    /\ UNCHANGED <<corpus, scaledFeatures, topN, inputLength, outFast>>

\* predictProtein(sequence, topN, true): whatever findNearestNeighborsFast
\* returns becomes the results of a normal return.
PredictFast(plan) ==
    /\ outFast.kind = "none"
    /\ LET out == predictResume(db, corpus, scaledFeatures, topN, inputLength,
                                plan, TRUE, TRUE)
       IN  outFast' = [kind |-> out.kind, value |-> out.results,
                       error |-> out.error, scanned |-> out.scanned,
                       plan |-> plan]
    /\ UNCHANGED <<corpus, scaledFeatures, topN, inputLength, outExhaustive>>

SpecPredictInit == IdleExtract /\ InitPredict /\ IdleServer

SpecPredictNext ==
    \/ PredictExhaustive /\ UNCHANGED <<extractVars, serverVars>>
    \/ \E plan \in Plans : PredictFast(plan) /\ UNCHANGED <<extractVars, serverVars>>

SpecPredict == SpecPredictInit /\ [][SpecPredictNext]_vars

(***************************************************************************)
(* Properties.                                                             *)
(***************************************************************************)
\* The length of the vector predictProtein hands to the scaler, [1, 27].
FeatureCount == 27

Sorted(res) ==
    \A i, j \in 1..Len(res) : i < j => res[i].distance <= res[j].distance

RanksInOrder(res) == \A i \in 1..Len(res) : res[i].rank = i

\* C1: the list either search returns is in non-decreasing order of distance
\* by rank, and its ranks are 1, 2, ..., k in list order.
C1_RankedByDistance ==
    /\ outExhaustive.kind = "return" =>
          Sorted(outExhaustive.value) /\ RanksInOrder(outExhaustive.value)
    /\ outFast.kind = "return" =>
          Sorted(outFast.value) /\ RanksInOrder(outFast.value)

\* C1 witness: both searches returned at least two results, and the fast one
\* ranks a later row strictly before an earlier row.
C1_Witness ==
    /\ outExhaustive.kind = "return" /\ Len(outExhaustive.value) >= 2
    /\ outFast.kind = "return" /\ Len(outFast.value) >= 2
    /\ outFast.value[1].protein > outFast.value[2].protein
    /\ outFast.value[1].distance < outFast.value[2].distance

AtMost(out, n) ==
    out.kind = "return" =>
        Len(out.value) <= Max(n, 0) /\ Len(out.value) <= out.scanned

\* C2: for every topN, zero and negative ones included, either search
\* returns at most topN results (none at all for a topN below 1) and at most
\* as many as it scanned candidates.
C2_AtMostTopN == AtMost(outExhaustive, topN) /\ AtMost(outFast, topN)

\* C3: a fast-mode prediction whose length-windowed scan yields zero
\* candidates does not return normally: it surfaces a "no candidates" signal.
C3_NoCandidatesSignalled ==
    (outFast.kind # "none" /\ outFast.scanned = 0) => outFast.kind = "throw"

\* C4: the feature extractor called on the empty sequence fails with a
\* DegenerateInputError and returns no vector.
C4_EmptyRejected ==
    (extracted.kind # "none" /\ sequence = <<>>) =>
        extracted.kind = "throw" /\ extracted.error = "DegenerateInputError"

BothSearched == outExhaustive.kind = "return" /\ outFast.kind = "return"

\* The stored length of an entry lies in [floor(0.8 len), ceil(1.2 len)].
LengthInsideWindow(row) ==
    /\ (inputLength * 8) \div 10 <= corpus[row].seq_length
    /\ corpus[row].seq_length <= (inputLength * 12 + 9) \div 10

ExhaustiveTop1InWindow ==
    /\ BothSearched
    /\ Len(outExhaustive.value) >= 1
    /\ LengthInsideWindow(outExhaustive.value[1].protein)

\* C5 as stated, in its plainest case (a topN that asks for a top-1, both
\* scans returning their rows in table order): whenever the exhaustive top-1
\* entry has its length inside the query's window, the fast search returns
\* that entry as its top-1.
C5_SameTop1 ==
    (ExhaustiveTop1InWindow /\ topN >= 1 /\ outFast.plan = "rowid") =>
        /\ Len(outFast.value) >= 1
        /\ outFast.value[1].protein = outExhaustive.value[1].protein

\* C5 amended: for a corpus that fits the exhaustive scan's row limit, when
\* the exhaustive top-1 entry has its length inside the window, the fast
\* search returns a top-1 for every topN >= 1, any top-1 it returns is as
\* distant as the exhaustive one, and it is the same entry when the
\* windowed scan returns its rows in table order.
C5_SameTop1WithinScanLimit ==
    (ExhaustiveTop1InWindow /\ Len(corpus) <= maxScan) =>
        /\ topN >= 1 => Len(outFast.value) >= 1
        /\ Len(outFast.value) >= 1 =>
              /\ outFast.value[1].distance = outExhaustive.value[1].distance
              /\ outFast.plan = "rowid" =>
                    outFast.value[1].protein = outExhaustive.value[1].protein

\* C5 witness: a corpus within the limit with a row outside the window and
\* a nearest neighbour, not the first row, on the edge of the window, found
\* by both searches.
C5_Witness ==
    /\ ExhaustiveTop1InWindow
    /\ Len(corpus) = maxScan
    /\ \E i \in 1..Len(corpus) : ~LengthInsideWindow(i)
    /\ outExhaustive.value[1].protein # 1
    /\ corpus[outExhaustive.value[1].protein].seq_length = (inputLength * 8) \div 10
    /\ outFast.plan = "rowid"
    /\ outFast.value # <<>>
    /\ outFast.value[1].protein = outExhaustive.value[1].protein

\* C6: no request's predictProtein is invoked before initModel has
\* completed, and while initialization has not succeeded (it is pending or
\* has failed) no request has run or been served a prediction.
C6_PredictOnlyWhenReady ==
    /\ \A r \in Requests : req[r].predictAt \in {"never", "done"}
    /\ initPc # "done" =>
          \A r \in Requests : req[r].predictAt = "never" /\ ~req[r].hasPredictions

\* C6 witness: one request was turned away while the model loaded, a later
\* one was served its predictions.
C6_Witness ==
    \E r1, r2 \in Requests :
        /\ req[r1].status = 503
        /\ req[r2].status = 200 /\ req[r2].predictAt = "done"
        /\ req[r2].hasPredictions

ReleasedOnce(handle, count) ==
    IF handle = "null" THEN count = 0 ELSE count = 1

\* C7: when the process has exited, on any path, each resource acquired at
\* startup has been released exactly once.
C7_ReleasedOnceOnExit ==
    proc # "running" =>
        /\ ReleasedOnce(scalerSession, released.scaler)
        /\ ReleasedOnce(db, released.db)

\* C8: a request one of whose stages failed ran no later stage and was
\* answered with an error carrying no result list.
C8_FailureShortCircuits ==
    \A r \in Requests :
        req[r].failedAt # "" =>
            /\ req[r].pc = "done"
            /\ req[r].status = 500
            /\ ~req[r].hasPredictions /\ req[r].predictions = <<>>
            /\ req[r].ran = StagesBefore(req[r].failedAt)

\* C8 witness: one request failed in its scan after the scaler had run, and
\* another one was served a non-empty result list.
C8_Witness ==
    \E r1, r2 \in Requests :
        /\ req[r1].failedAt = "scan" /\ req[r1].status = 500
        /\ req[r2].status = 200 /\ req[r2].predictions # <<>>

Recognised(seq) == {i \in 1..Len(seq) : \E k \in 1..Len(aminoAcids) : seq[i] = aminoAcids[k]}

CountsSum(v) == SumSeq([i \in 1..Len(aminoAcids) |-> v[i + 1].n])

Composition(v) == {v[i + 1] : i \in 1..Len(aminoAcids)}

Extracted == extracted.kind = "return" /\ sequence # <<>>

\* C9 as stated: for any nonempty sequence, symbols outside the alphabet
\* included, the 20 counts sum to the divisor of the fractions and the
\* vector has 27 elements.
C9_CountsSumToDivisor ==
    Extracted =>
        /\ Len(extracted.value) = FeatureCount
        /\ \A f \in Composition(extracted.value) :
              f.kind = "ratio" /\ f.d = CountsSum(extracted.value)

\* C9 amended: for any nonempty sequence the vector has 27 elements, the
\* divisor of the 20 fractions is the sequence length, and the 20 counts sum
\* to the number of symbols that belong to the alphabet: they sum to the
\* divisor exactly when no symbol of the sequence is outside the alphabet.
C9_CountsSumToRecognised ==
    Extracted =>
        /\ Len(extracted.value) = FeatureCount
        /\ \A f \in Composition(extracted.value) :
              f.kind = "ratio" /\ f.d = Len(sequence)
        /\ CountsSum(extracted.value) = Cardinality(Recognised(sequence))
        /\ (CountsSum(extracted.value) = Len(sequence))
              <=> (Recognised(sequence) = 1..Len(sequence))

\* C9 witness: a vector extracted from a sequence that repeats a symbol of
\* the alphabet and holds one outside it.
C9_Witness ==
    /\ Extracted
    /\ Len(sequence) = MaxSeqLen
    /\ Cardinality(Recognised(sequence)) = MaxSeqLen - 1
    /\ \E f \in Composition(extracted.value) : f.n >= 2

\* C10: a request that passed the readiness gate performs its corpus scan
\* on an open handle: the handle is never read after closeConnections has
\* closed it.
C10_HandleOpenWhenUsed ==
    \A r \in Requests : req[r].scanDb \in {"none", "open"}

====
